---- MODULE Spec2Model ----
(***************************************************************************)
(* A model of Support/bin/llm_common.py, the helper library of the         *)
(* LLM MailGuard bundle: the AppleScript dialogs, the JSON configuration   *)
(* file, the Keychain entry holding the API key and the chat-completion    *)
(* request.  Python strings are sequences of one-character strings; every  *)
(* function of the library is one action, taken to completion.             *)
(***************************************************************************)
EXTENDS Integers, Sequences, FiniteSets, TLC

VARIABLES
    esc_text,      \* escape_for_applescript: the argument of the last call
    esc_result,    \* ... and what it returned
    dlg_fn,        \* the dialog function called last ("none" before any call)
    dlg_args,      \* its arguments, as the caller passed them
    dlg_script,    \* the script text handed to osascript
    dlg_result,    \* what the dialog function returned
    cfg_dir,       \* whether CONFIG_DIR exists
    cfg_file,      \* CONFIG_FILE: whether it exists, can be opened, and its text
    cfg_op,        \* the config function called last
    cfg_result,    \* what it returned or raised
    cfg_saved,     \* the mapping of the last save_config, while the file is as it left it
    cfg_dropped,   \* whether the last save_config wrote over a key it does not hold
    kc_tool,       \* whether /usr/bin/security can be run
    kc_store,      \* the Keychain entry of KEYCHAIN_SERVICE / KEYCHAIN_ACCOUNT
    kc_op,         \* the Keychain function called last
    kc_result,     \* what it returned or raised
    kc_steps,      \* the security commands the last call ran, with their exit codes
    kc_before,     \* the entry as the last call found it
    kc_saved,      \* the key of the last save that returned True, until the next save
    api_pc,        \* "idle", or "done" once call_llm_api has returned or raised
    api_args,      \* the api_key and email_content of the call
    api_request,   \* the request sent: its Authorization header and user content
    api_sent,      \* how many requests the call sent
    api_response,  \* what came back from the endpoint
    api_result     \* what call_llm_api returned or raised

esc_vars == <<esc_text, esc_result>>
dlg_vars == <<dlg_fn, dlg_args, dlg_script, dlg_result>>
cfg_vars == <<cfg_dir, cfg_file, cfg_op, cfg_result, cfg_saved, cfg_dropped>>
kc_vars == <<kc_tool, kc_store, kc_op, kc_result, kc_steps, kc_before, kc_saved>>
api_vars == <<api_pc, api_args, api_request, api_sent, api_response, api_result>>

vars == <<esc_vars, dlg_vars, cfg_vars, kc_vars, api_vars>>

----------------------------------------------------------------------------
(* Strings *)

BS == "\\"
DQ == "\""

\* longest caller-supplied string of the dialog operations
MaxLen == 2
\* longest argument of escape_for_applescript
MaxEscLen == 4

Chars == {"a", BS, DQ}

Strs(n) == UNION {[1..k -> Chars] : k \in 0..n}

\* What a call gives back, as one record shape: None, a string, a boolean, or
\* an exception that reaches the caller
None == [kind |-> "none", val |-> <<>>, flag |-> FALSE, exc |-> ""]
Str(s) == [kind |-> "str", val |-> s, flag |-> FALSE, exc |-> ""]
Bool(b) == [kind |-> "bool", val |-> <<>>, flag |-> b, exc |-> ""]
Raise(e) == [kind |-> "raise", val |-> <<>>, flag |-> FALSE, exc |-> e]

\* the characters str.strip() removes
Whitespace == {" ", "\t", "\n", "\r"}

RECURSIVE lstrip(_)
lstrip(s) ==
    IF s # <<>> /\ Head(s) \in Whitespace THEN lstrip(Tail(s)) ELSE s

RECURSIVE rstrip(_)
rstrip(s) ==
    IF s # <<>> /\ s[Len(s)] \in Whitespace
    THEN rstrip(SubSeq(s, 1, Len(s) - 1)) ELSE s

\* str.strip(): leading and trailing whitespace removed
strip(s) == rstrip(lstrip(s))

\* str.replace(old, new) for a one-character old: every occurrence, left to right
RECURSIVE replace(_, _, _)
replace(text, old, new) ==
    IF text = <<>> THEN <<>>
    ELSE (IF Head(text) = old THEN new ELSE <<Head(text)>>)
         \o replace(Tail(text), old, new)

----------------------------------------------------------------------------
(* Dialog layer *)

\* a faulty escape_for_applescript: the two replacements in the other order
escape_quote_first(text) ==
    replace(replace(text, DQ, <<BS, DQ>>), BS, <<BS, BS>>)

\* escape_for_applescript: backslashes doubled first, then quotes prefixed
escape_for_applescript(text) ==
    replace(replace(text, BS, <<BS, BS>>), DQ, <<BS, DQ>>)

MAILMATE_ICON ==
    <<"/","A","p","p","l","i","c","a","t","i","o","n","s","/","M","a","i","l","M","a","t",
      "e",".","a","p","p","/","C","o","n","t","e","n","t","s","/","R","e","s","o","u","r",
      "c","e","s","/","M","a","i","l","M","a","t","e",".","i","c","n","s">>

\* the default of the title parameter of show_alert and show_dialog
DefaultTitle == <<"L","L","M"," ","M","a","i","l","G","u","a","r","d">>

HiddenAnswer ==
    <<"w","i","t","h"," ","h","i","d","d","e","n"," ","a","n","s","w","e","r">>

MoveToJunk == <<"M","o","v","e"," ","t","o"," ","J","u","n","k">>

\* literal text of the script template (show_alert, lines 52-57)
Frag1 ==
    <<"\n"," "," "," "," ","s","e","t"," ","i","c","o","n","P","a","t","h"," ","t","o"," ",
      "P","O","S","I","X"," ","f","i","l","e"," ","\"">>

\* literal text of the script template (show_alert, lines 52-57)
Frag2 ==
    <<"\"","\n"," "," "," "," ","t","e","l","l"," ","a","p","p","l","i","c","a","t","i","o",
      "n"," ","\"","S","y","s","t","e","m"," ","E","v","e","n","t","s","\"","\n"," "," ",
      " "," "," "," "," "," ","d","i","s","p","l","a","y"," ","d","i","a","l","o","g"," ",
      "\"">>

\* literal text of the script template (show_alert, lines 52-57)
Frag3 ==
    <<"\""," ","w","i","t","h"," ","t","i","t","l","e"," ","\"">>

\* literal text of the script template (show_alert, lines 52-57)
Frag4 ==
    <<"\""," ","b","u","t","t","o","n","s"," ","{","\"","O","K","\"","}"," ","d","e","f",
      "a","u","l","t"," ","b","u","t","t","o","n"," ","\"","O","K","\""," ","w","i","t","h",
      " ","i","c","o","n"," ","i","c","o","n","P","a","t","h","\n"," "," "," "," ","e","n",
      "d"," ","t","e","l","l","\n"," "," "," "," ">>

\* the f-string of show_alert (lines 52-57): the fragments with the values embedded as given
show_alert_script(message, title) ==
    Frag1 \o MAILMATE_ICON \o
    Frag2 \o message \o
    Frag3 \o title \o
    Frag4

\* literal text of the script template (show_dialog, lines 67-73)
Frag5 ==
    <<"\"","\n"," "," "," "," ","t","e","l","l"," ","a","p","p","l","i","c","a","t","i","o",
      "n"," ","\"","S","y","s","t","e","m"," ","E","v","e","n","t","s","\"","\n"," "," ",
      " "," "," "," "," "," ","s","e","t"," ","d","i","a","l","o","g","R","e","s","u","l",
      "t"," ","t","o"," ","d","i","s","p","l","a","y"," ","d","i","a","l","o","g"," ","\"">>

\* literal text of the script template (show_dialog, lines 67-73)
Frag6 ==
    <<"\""," ","d","e","f","a","u","l","t"," ","a","n","s","w","e","r"," ","\"">>

\* literal text of the script template (show_dialog, lines 67-73)
Frag7 ==
    <<"\""," ">>

\* literal text of the script template (show_dialog, lines 67-73)
Frag8 ==
    <<" ","b","u","t","t","o","n","s"," ","{","\"","C","a","n","c","e","l","\"",","," ",
      "\"","O","K","\"","}"," ","d","e","f","a","u","l","t"," ","b","u","t","t","o","n"," ",
      "\"","O","K","\""," ","w","i","t","h"," ","t","i","t","l","e"," ","\"">>

\* literal text of the script template (show_dialog, lines 67-73)
Frag9 ==
    <<"\""," ","w","i","t","h"," ","i","c","o","n"," ","i","c","o","n","P","a","t","h","\n",
      " "," "," "," "," "," "," "," ","r","e","t","u","r","n"," ","t","e","x","t"," ","r",
      "e","t","u","r","n","e","d"," ","o","f"," ","d","i","a","l","o","g","R","e","s","u",
      "l","t","\n"," "," "," "," ","e","n","d"," ","t","e","l","l","\n"," "," "," "," ">>

\* the f-string of show_dialog (lines 67-73): the fragments with the values embedded as given
show_dialog_script(message, default_answer, hidden_str, title) ==
    Frag1 \o MAILMATE_ICON \o
    Frag5 \o message \o
    Frag6 \o default_answer \o
    Frag7 \o hidden_str \o
    Frag8 \o title \o
    Frag9

\* literal text of the script template (show_threat_dialog, lines 81-91)
Frag10 ==
    <<"\n","\n","R","e","a","s","o","n",":"," ">>

\* literal text of the script template (show_threat_dialog, lines 81-91)
Frag11 ==
    <<"\n","\n","M","o","v","e"," ","t","o"," ","J","u","n","k"," ","f","o","l","d","e","r",
      "?","\""," ","b","u","t","t","o","n","s"," ","{","\"","K","e","e","p","\"",","," ",
      "\"","M","o","v","e"," ","t","o"," ","J","u","n","k","\"","}"," ","d","e","f","a","u",
      "l","t"," ","b","u","t","t","o","n"," ","\"","M","o","v","e"," ","t","o"," ","J","u",
      "n","k","\""," ","w","i","t","h"," ","t","i","t","l","e"," ","\"">>

\* literal text of the script template (show_threat_dialog, lines 81-91)
Frag12 ==
    <<"\""," ","w","i","t","h"," ","i","c","o","n"," ","i","c","o","n","P","a","t","h","\n",
      " "," "," "," "," "," "," "," ","r","e","t","u","r","n"," ","b","u","t","t","o","n",
      " ","r","e","t","u","r","n","e","d"," ","o","f"," ","d","i","a","l","o","g","R","e",
      "s","u","l","t","\n"," "," "," "," ","e","n","d"," ","t","e","l","l","\n"," "," "," ",
      " ">>

\* the f-string of show_threat_dialog (lines 81-91): the fragments with the values embedded as given
show_threat_dialog_script(threat_type, reason, title) ==
    Frag1 \o MAILMATE_ICON \o
    Frag5 \o threat_type \o
    Frag10 \o reason \o
    Frag11 \o title \o
    Frag12

\* what the osascript process can do: fail to start, exit non-zero (an error or
\* the user's Cancel), or exit 0 with the dialog's answer on standard output
Stdouts ==
    { <<"K","e","e","p","\n">>,
      MoveToJunk \o <<"\n">>,
      <<" ","a"," ","\n">> }

OsaOutcomes ==
    { [raised |-> TRUE, returncode |-> 0, stdout |-> <<>>],
      [raised |-> FALSE, returncode |-> 1, stdout |-> <<>>] }
    \cup { [raised |-> FALSE, returncode |-> 0, stdout |-> s] : s \in Stdouts }

\* run_applescript: None on an exception or a non-zero exit, else the stripped output
run_applescript(script, proc) ==
    IF proc.raised THEN None
    ELSE IF proc.returncode # 0 THEN None
    ELSE Str(strip(proc.stdout))

\* the titles the callers pass
Titles == {DefaultTitle, <<DQ>>, <<BS>>}

NoArgs ==
    [message |-> <<>>, title |-> <<>>, default_answer |-> <<>>, hidden |-> FALSE,
     threat_type |-> <<>>, reason |-> <<>>]

\* show_alert(message, title)
show_alert ==
    \E message \in Strs(MaxLen), title \in Titles, proc \in OsaOutcomes :
        LET script == show_alert_script(escape_for_applescript(message),
                                        escape_for_applescript(title))
        IN  /\ dlg_fn = "none"
            /\ dlg_fn' = "show_alert"
            /\ dlg_args' = [NoArgs EXCEPT !.message = message, !.title = title]
            /\ dlg_script' = script
            /\ dlg_result' = None
            /\ UNCHANGED <<esc_vars, cfg_vars, kc_vars, api_vars>>

\* show_dialog(message, default_answer, hidden, title)
show_dialog ==
    \E message \in Strs(MaxLen), default_answer \in Strs(MaxLen),
       hidden \in BOOLEAN, title \in Titles, proc \in OsaOutcomes :
        LET hidden_str == IF hidden THEN HiddenAnswer ELSE <<>>
            script == show_dialog_script(escape_for_applescript(message),
                                         escape_for_applescript(default_answer),
                                         hidden_str,
                                         escape_for_applescript(title))
        IN  /\ dlg_fn = "none"
            /\ dlg_fn' = "show_dialog"
            /\ dlg_args' = [NoArgs EXCEPT !.message = message,
                                          !.default_answer = default_answer,
                                          !.hidden = hidden, !.title = title]
            /\ dlg_script' = script
            /\ dlg_result' = run_applescript(script, proc)
            /\ UNCHANGED <<esc_vars, cfg_vars, kc_vars, api_vars>>

\* show_threat_dialog(threat_type, reason, title): reason and title are escaped,
\* threat_type is embedded as passed
show_threat_dialog ==
    \E threat_type \in Strs(MaxLen), reason \in Strs(MaxLen),
       title \in Titles, proc \in OsaOutcomes :
        LET script == show_threat_dialog_script(threat_type,
                                                escape_for_applescript(reason),
                                                escape_for_applescript(title))
            result == run_applescript(script, proc)
        IN  /\ dlg_fn = "none"
            /\ dlg_fn' = "show_threat_dialog"
            /\ dlg_args' = [NoArgs EXCEPT !.threat_type = threat_type,
                                          !.reason = reason, !.title = title]
            /\ dlg_script' = script
            /\ dlg_result' = Bool(result = Str(MoveToJunk))
            /\ UNCHANGED <<esc_vars, cfg_vars, kc_vars, api_vars>>

\* the caller takes the result; the next dialog starts from scratch
dialog_return ==
    /\ dlg_fn # "none"
    /\ dlg_fn' = "none"
    /\ dlg_args' = NoArgs
    /\ dlg_script' = <<>>
    /\ dlg_result' = None
    /\ UNCHANGED <<esc_vars, cfg_vars, kc_vars, api_vars>>

\* a direct call of escape_for_applescript
Escape ==
    \E text \in Strs(MaxEscLen) :
        /\ esc_text' = text
        /\ esc_result' = Str(escape_for_applescript(text))
        /\ UNCHANGED <<dlg_vars, cfg_vars, kc_vars, api_vars>>

----------------------------------------------------------------------------
(* Config store *)

\* most entries of a configuration mapping
MaxKeys == 2

\* Python values: a str or an int
StrV(s) == [t |-> "str", s |-> s, n |-> 0]
IntV(n) == [t |-> "int", s |-> <<>>, n |-> n]

ConfigKeys == {StrV(<<"a">>), StrV(<<"1">>), IntV(1)}
ConfigVals == {StrV(<<"x">>), StrV(<<DQ, BS>>), IntV(12)}

\* a dict: its items in insertion order, no key twice
Dicts ==
    { d \in UNION {[1..k -> [k : ConfigKeys, v : ConfigVals]] : k \in 0..MaxKeys} :
        \A i, j \in 1..Len(d) : d[i].k = d[j].k => i = j }

\* a dict as a set of (key, value) pairs: what == compares
items(d) == { <<d[i].k, d[i].v>> : i \in 1..Len(d) }
keys(d) == { d[i].k : i \in 1..Len(d) }

Digits == <<"0", "1", "2", "3", "4", "5", "6", "7", "8", "9">>

\* the decimal text of a natural number
RECURSIVE int_text(_)
int_text(n) ==
    IF n < 10 THEN <<Digits[n + 1]>>
    ELSE int_text(n \div 10) \o <<Digits[(n % 10) + 1]>>

digit_value(c) == CHOOSE v \in 0..9 : Digits[v + 1] = c

\* the number a decimal text denotes
RECURSIVE text_int(_)
text_int(s) ==
    IF s = <<>> THEN 0
    ELSE 10 * text_int(SubSeq(s, 1, Len(s) - 1)) + digit_value(s[Len(s)])

is_number_text(s) ==
    /\ s # <<>>
    /\ \A i \in 1..Len(s) : \E v \in 0..9 : Digits[v + 1] = s[i]
    /\ (Len(s) > 1 => s[1] # "0")

\* the text of a JSON string: backslash and quote each get a backslash
RECURSIVE json_encode_string(_)
json_encode_string(s) ==
    IF s = <<>> THEN <<>>
    ELSE (IF Head(s) \in {BS, DQ} THEN <<BS, Head(s)>> ELSE <<Head(s)>>)
         \o json_encode_string(Tail(s))

\* reading the text of a JSON string back; ok is FALSE on a bare quote, on a
\* backslash with nothing or an unknown character after it
RECURSIVE json_decode_string(_)
json_decode_string(s) ==
    IF s = <<>> THEN [ok |-> TRUE, s |-> <<>>]
    ELSE IF Head(s) = DQ THEN [ok |-> FALSE, s |-> <<>>]
    ELSE IF Head(s) = BS
    THEN IF Len(s) >= 2 /\ s[2] \in {BS, DQ}
         THEN LET rest == json_decode_string(Tail(Tail(s)))
              IN  [ok |-> rest.ok, s |-> <<s[2]>> \o rest.s]
         ELSE [ok |-> FALSE, s |-> <<>>]
    ELSE LET rest == json_decode_string(Tail(s))
         IN  [ok |-> rest.ok, s |-> <<Head(s)>> \o rest.s]

\* JSON text as its tokens (the indentation between them carries nothing):
\* punctuation, a string with its text as written, a number with its digits
Punct(p) == [t |-> p, s |-> <<>>]
StrTok(s) == [t |-> "str", s |-> s]
NumTok(s) == [t |-> "num", s |-> s]

\* json.dump of a key: a str as it is, an int as the str of its decimal text
dump_key(k) ==
    IF k.t = "str" THEN StrTok(json_encode_string(k.s))
    ELSE StrTok(json_encode_string(int_text(k.n)))

dump_value(v) ==
    IF v.t = "str" THEN StrTok(json_encode_string(v.s)) ELSE NumTok(int_text(v.n))

RECURSIVE dump_items(_, _)
dump_items(d, i) ==
    IF i > Len(d) THEN <<>>
    ELSE (IF i > 1 THEN <<Punct(",")>> ELSE <<>>)
         \o <<dump_key(d[i].k), Punct(":"), dump_value(d[i].v)>>
         \o dump_items(d, i + 1)

\* json.dump(config, f, indent=2)
json_dump(config) == <<Punct("{")>> \o dump_items(config, 1) \o <<Punct("}")>>

scalar_ok(tok) ==
    \/ tok.t = "str" /\ json_decode_string(tok.s).ok
    \/ tok.t = "num" /\ is_number_text(tok.s)

scalar_value(tok) ==
    IF tok.t = "str" THEN StrV(json_decode_string(tok.s).s)
    ELSE IntV(text_int(tok.s))

\* the members between the braces: key : value , key : value ...
members_ok(m) ==
    \/ m = <<>>
    \/ /\ Len(m) % 4 = 3
       /\ \A i \in 1..Len(m) :
            CASE i % 4 = 1 -> m[i].t = "str" /\ scalar_ok(m[i])
              [] i % 4 = 2 -> m[i].t = ":"
              [] i % 4 = 3 -> scalar_ok(m[i])
              [] OTHER -> m[i].t = ","

member_count(m) == (Len(m) + 1) \div 4
member_key(m, j) == scalar_value(m[4 * j - 3])
member_value(m, j) == scalar_value(m[4 * j - 1])

\* the dict of a JSON object: each key once, where it came first, with the
\* value of its last occurrence
RECURSIVE object_dict(_, _)
object_dict(m, j) ==
    IF j > member_count(m) THEN <<>>
    ELSE IF \E i \in 1..(j - 1) : member_key(m, i) = member_key(m, j)
    THEN object_dict(m, j + 1)
    ELSE LET last == CHOOSE i \in j..member_count(m) :
                        /\ member_key(m, i) = member_key(m, j)
                        /\ \A h \in (i + 1)..member_count(m) :
                              member_key(m, h) # member_key(m, j)
         IN  <<[k |-> member_key(m, j), v |-> member_value(m, last)]>>
             \o object_dict(m, j + 1)

NoValue == IntV(0)

\* json.load: the parsed value, or the failure that raises JSONDecodeError
json_load(text) ==
    IF Len(text) = 1 /\ scalar_ok(text[1])
    THEN [ok |-> TRUE, kind |-> "scalar", dict |-> <<>>, scalar |-> scalar_value(text[1])]
    ELSE IF /\ Len(text) >= 2
            /\ text[1].t = "{"
            /\ text[Len(text)].t = "}"
            /\ members_ok(SubSeq(text, 2, Len(text) - 1))
    THEN [ok |-> TRUE, kind |-> "dict",
          dict |-> object_dict(SubSeq(text, 2, Len(text) - 1), 1), scalar |-> NoValue]
    ELSE [ok |-> FALSE, kind |-> "none", dict |-> <<>>, scalar |-> NoValue]

\* what load_config and save_config give back
CfgNone == [kind |-> "none", dict |-> <<>>, scalar |-> NoValue, exc |-> ""]
CfgValue(p) == [kind |-> p.kind, dict |-> p.dict, scalar |-> p.scalar, exc |-> ""]
CfgRaise(e) == [kind |-> "raise", dict |-> <<>>, scalar |-> NoValue, exc |-> e]

\* a faulty load_config: no try around open and json.load
load_config_unguarded(file) ==
    IF file.exists
    THEN IF file.denied THEN CfgRaise("PermissionError")
         ELSE IF ~json_load(file.text).ok THEN CfgRaise("JSONDecodeError")
         ELSE CfgValue(json_load(file.text))
    ELSE CfgNone

\* a faulty save_config: the new mapping merged into the file's old one
save_merged(old, config) ==
    LET before == IF old.exists /\ ~old.denied /\ json_load(old.text).ok
                  THEN json_load(old.text).dict ELSE <<>>
        kept == SelectSeq(before, LAMBDA e : e.k \notin keys(config))
    IN  json_dump(kept \o config)

\* save_config: what the file holds after open(CONFIG_FILE, "w") and json.dump
save_text(old, config) == json_dump(config)

\* load_config on a file in the given state
load_config_result(file) ==
    IF file.exists
    THEN IF file.denied THEN CfgNone
         ELSE IF ~json_load(file.text).ok THEN CfgNone
         ELSE CfgValue(json_load(file.text))
    ELSE CfgNone

NoFile == [exists |-> FALSE, denied |-> FALSE, text |-> <<>>]
NoSave == [valid |-> FALSE, config |-> <<>>]

\* load_config()
load_config ==
    /\ cfg_op' = "load"
    /\ cfg_result' = load_config_result(cfg_file)
    /\ UNCHANGED <<cfg_dir, cfg_file, cfg_saved, cfg_dropped>>
    /\ UNCHANGED <<esc_vars, dlg_vars, kc_vars, api_vars>>

\* save_config(config): makedirs, then the file opened for writing and dumped
\* into; opening a file without permission raises and leaves it as it is
save_config ==
    \E config \in Dicts :
        /\ cfg_op' = "save"
        /\ cfg_dir' = TRUE
        /\ IF cfg_file.exists /\ cfg_file.denied
           THEN /\ cfg_result' = CfgRaise("PermissionError")
                /\ UNCHANGED <<cfg_file, cfg_saved, cfg_dropped>>
           ELSE /\ cfg_result' = CfgNone
                /\ cfg_file' = [exists |-> TRUE, denied |-> FALSE,
                                text |-> save_text(cfg_file, config)]
                /\ cfg_saved' = [valid |-> TRUE, config |-> config]
                /\ cfg_dropped' =
                      (\E k \in keys(load_config_result(cfg_file).dict) :
                            k \notin keys(config))
        /\ UNCHANGED <<esc_vars, dlg_vars, kc_vars, api_vars>>

\* texts json.load rejects
MalformedTexts ==
    { <<>>,
      <<Punct("{")>>,
      <<Punct("{"), StrTok(<<"a">>), Punct(":")>>,
      <<Punct("{"), StrTok(<<"a">>), Punct(":"), StrTok(<<"x">>), Punct(","), Punct("}")>>,
      <<Punct("{"), NumTok(<<"1">>), Punct(":"), StrTok(<<"x">>), Punct("}")>>,
      <<Punct("{"), StrTok(<<"a">>), Punct(":"), StrTok(<<BS>>), Punct("}")>>,
      <<StrTok(<<"a">>), StrTok(<<"a">>)>> }

\* texts json.load accepts that save_config did not write
ForeignTexts ==
    { <<NumTok(<<"1", "2">>)>>,
      <<StrTok(<<"a">>)>>,
      <<Punct("{"), StrTok(<<"a">>), Punct(":"), StrTok(<<"x">>), Punct(","),
        StrTok(<<"a">>), Punct(":"), NumTok(<<"7">>), Punct("}")>> }

\* the file changed from outside: rewritten, removed, or its permissions taken;
\* what the last call returned no longer describes it
file_rewritten ==
    \E text \in MalformedTexts \cup ForeignTexts :
        /\ cfg_dir
        /\ ~(cfg_file.exists /\ cfg_file.denied)
        /\ cfg_file' = [exists |-> TRUE, denied |-> FALSE, text |-> text]
        /\ cfg_saved' = NoSave
        /\ cfg_op' = "none"
        /\ cfg_result' = CfgNone
        /\ UNCHANGED <<cfg_dir, cfg_dropped>>
        /\ UNCHANGED <<esc_vars, dlg_vars, kc_vars, api_vars>>
    /\ UNCHANGED <<esc_vars, dlg_vars, kc_vars, api_vars>>

file_removed ==
    /\ cfg_file.exists
    /\ cfg_file' = NoFile
    /\ cfg_saved' = NoSave
    /\ cfg_op' = "none"
    /\ cfg_result' = CfgNone
    /\ UNCHANGED <<cfg_dir, cfg_dropped>>
    /\ UNCHANGED <<esc_vars, dlg_vars, kc_vars, api_vars>>

file_denied ==
    /\ cfg_file.exists
    /\ ~cfg_file.denied
    /\ cfg_file' = [cfg_file EXCEPT !.denied = TRUE]
    /\ cfg_saved' = NoSave
    /\ cfg_op' = "none"
    /\ cfg_result' = CfgNone
    /\ UNCHANGED <<cfg_dir, cfg_dropped>>
    /\ UNCHANGED <<esc_vars, dlg_vars, kc_vars, api_vars>>

----------------------------------------------------------------------------
(* Credential store *)

\* longest API key
MaxKeyLen == 2

KeyChars == {"a", " "}
ApiKeys == UNION {[1..k -> KeyChars] : k \in 0..MaxKeyLen}

NoEntry == [present |-> FALSE, secret |-> <<>>]
Entry(s) == [present |-> TRUE, secret |-> s]

NoSavedKey == [valid |-> FALSE, key |-> <<>>, over |-> FALSE]

\* one run of /usr/bin/security: whether it could be started, its exit code
\* and its standard output
Ran(cmd, rc, out) == [cmd |-> cmd, started |-> TRUE, returncode |-> rc, stdout |-> out]
NotStarted(cmd) == [cmd |-> cmd, started |-> FALSE, returncode |-> 0, stdout |-> <<>>]

\* security find-generic-password -w: the secret and a newline, exit 0, when
\* the entry is there; a non-zero exit when it is not
find_generic_password(store) ==
    IF store.present
    THEN Ran("find-generic-password", 0, store.secret \o <<"\n">>)
    ELSE Ran("find-generic-password", 44, <<>>)

\* a faulty get_api_key_from_keychain: the output returned as printed
get_result_unstripped(proc) ==
    IF ~proc.started THEN None
    ELSE IF proc.returncode = 0 THEN Str(proc.stdout)
    ELSE None

\* get_api_key_from_keychain: the stripped output on exit 0; None on any other
\* exit and on any exception of subprocess.run
get_result(proc) ==
    IF ~proc.started THEN None
    ELSE IF proc.returncode = 0 THEN Str(strip(proc.stdout))
    ELSE None

\* get_api_key_from_keychain()
get_api_key_from_keychain ==
    LET proc == IF kc_tool THEN find_generic_password(kc_store)
                ELSE NotStarted("find-generic-password")
    IN  /\ kc_op' = "get"
        /\ kc_steps' = <<proc>>
        /\ kc_before' = kc_store
        /\ kc_result' = get_result(proc)
        /\ UNCHANGED <<kc_tool, kc_store, kc_saved>>
        /\ UNCHANGED <<esc_vars, dlg_vars, cfg_vars, api_vars>>

\* a faulty save_api_key_to_keychain: success only when both commands exited 0
save_result_both(delete, add) ==
    Bool(delete.returncode = 0 /\ add.returncode = 0)

\* save_api_key_to_keychain: result.returncode == 0 of add-generic-password
save_result(delete, add) == Bool(add.returncode = 0)

\* save_api_key_to_keychain(api_key): delete-generic-password, its outcome
\* ignored, then add-generic-password -U; a command that cannot be started
\* raises out of subprocess.run, which nothing here catches
save_api_key_to_keychain ==
    \E api_key \in ApiKeys :
        /\ kc_op' = "save"
        /\ kc_before' = kc_store
        /\ IF ~kc_tool
           THEN /\ kc_steps' = <<NotStarted("delete-generic-password")>>
                /\ kc_result' = Raise("FileNotFoundError")
                /\ kc_saved' = NoSavedKey
                /\ UNCHANGED kc_store
           ELSE \E delete_rc \in {0, 44, 1}, add_rc \in {0, 1} :
                  LET delete == Ran("delete-generic-password", delete_rc, <<>>)
                      add == Ran("add-generic-password", add_rc, <<>>)
                      deleted == IF delete_rc = 0 THEN NoEntry ELSE kc_store
                  IN  \* delete exits 0 exactly when it removed an entry, 44
                      \* when there was none to remove
                      /\ delete_rc = 0 => kc_store.present
                      /\ delete_rc = 44 <=> ~kc_store.present
                      /\ kc_steps' = <<delete, add>>
                      /\ kc_store' = IF add_rc = 0 THEN Entry(api_key) ELSE deleted
                      /\ kc_result' = save_result(delete, add)
                      /\ kc_saved' = IF save_result(delete, add) = Bool(TRUE)
                                     THEN [valid |-> TRUE, key |-> api_key,
                                           over |-> kc_store.present]
                                     ELSE NoSavedKey
        /\ UNCHANGED kc_tool
        /\ UNCHANGED <<esc_vars, dlg_vars, cfg_vars, api_vars>>

----------------------------------------------------------------------------
(* API client *)

\* max_chars of call_llm_api
max_chars == 30000
max_completion_tokens == 256
timeout == 60

\* how far the lengths of the email contents tried lie around 0 and max_chars
MaxOver == 2
\* most choices in a response
MaxChoices == 2

TruncationMarker ==
    <<"\n","\n","[",".",".","."," ","t","r","u","n","c","a","t","e","d"," ","d","u","e",
      " ","t","o"," ","l","e","n","g","t","h"," ",".",".",".","]">>

Bearer == <<"B","e","a","r","e","r"," ">>
ApiErrorPrefix == <<"A","P","I"," ","e","r","r","o","r"," ">>
ConnectionErrorPrefix ==
    <<"C","o","n","n","e","c","t","i","o","n"," ","e","r","r","o","r",":"," ">>

ContentChars == <<"a", "b", "]">>

\* an email text of n characters; p shifts the pattern so that texts of one
\* length differ, and neighbouring characters always do
email_text(n, p) == [i \in 1..n |-> ContentChars[((i + p) % 3) + 1]]

ContentLengths == (0..MaxOver) \cup ((max_chars - MaxOver)..(max_chars + MaxOver))

\* the email contents tried, some of them ending in the marker's own text
EmailContents ==
    {email_text(n, p) : n \in ContentLengths, p \in {0, 1}}
    \cup {email_text(n - Len(TruncationMarker), 0) \o TruncationMarker :
            n \in {m \in ContentLengths : m >= Len(TruncationMarker)}}

\* api_key: None, the empty string, or a key
ApiKeyArgs ==
    { [none |-> TRUE, s |-> <<>>], [none |-> FALSE, s |-> <<>>],
      [none |-> FALSE, s |-> <<"a">>] }

\* What urlopen can meet.  kind: "urlerror" (no HTTP response; reason),
\* "httperror" (an error status; code, and the body stream fp: "none" when the
\* error carries none, "text" when it reads and decodes to body, "undecodable"
\* when its bytes are not UTF-8), "ok" (a 2xx response; parses says whether
\* the body is JSON).  For a JSON body: top is what the document is, choices
\* what its "choices" member is, n_choices the length of that array, message
\* and content what the first choice's "message" and its "content" are, text
\* the content string.
NoShape ==
    [top |-> "object", choices |-> "absent", n_choices |-> 0, message |-> "absent",
     content |-> "absent", text |-> <<>>]

Safe == <<"S","A","F","E">>
RateLimited == <<"r","a","t","e"," ","l","i","m","i","t","e","d">>

JsonShapes ==
    { [NoShape EXCEPT !.top = t] : t \in {"object", "array", "number"} }
    \cup { [NoShape EXCEPT !.choices = "null"] }
    \cup { [NoShape EXCEPT !.choices = "array", !.n_choices = 0] }
    \cup { [NoShape EXCEPT !.choices = "array", !.n_choices = n, !.message = m] :
             n \in 1..MaxChoices, m \in {"absent", "null"} }
    \cup { [NoShape EXCEPT !.choices = "array", !.n_choices = n, !.message = "object",
                           !.content = c] :
             n \in 1..MaxChoices, c \in {"absent", "null"} }
    \cup { [NoShape EXCEPT !.choices = "array", !.n_choices = n, !.message = "object",
                           !.content = "string", !.text = s] :
             n \in 1..MaxChoices, s \in {<<>>, Safe} }

Responses ==
    { [kind |-> "urlerror", reason |-> r, code |-> 0, fp |-> "none", body |-> <<>>,
       parses |-> FALSE, json |-> NoShape] : r \in {<<"t","i","m","e","d"," ","o","u","t">>} }
    \cup { [kind |-> "httperror", reason |-> <<>>, code |-> c, fp |-> "text", body |-> b,
            parses |-> FALSE, json |-> NoShape] : c \in {429, 500}, b \in {<<>>, RateLimited} }
    \cup { [kind |-> "httperror", reason |-> <<>>, code |-> c, fp |-> f, body |-> <<>>,
            parses |-> FALSE, json |-> NoShape] : c \in {429, 500}, f \in {"none", "undecodable"} }
    \cup { [kind |-> "ok", reason |-> <<>>, code |-> 200, fp |-> "text", body |-> <<>>,
            parses |-> FALSE, json |-> NoShape] }
    \cup { [kind |-> "ok", reason |-> <<>>, code |-> 200, fp |-> "text", body |-> <<>>,
            parses |-> TRUE, json |-> j] : j \in JsonShapes }

RaiseMsg(e, msg) == [kind |-> "raise", val |-> msg, flag |-> FALSE, exc |-> e]

\* a faulty truncation: the comparison turned into >=
truncate_at_or_over(email_content) ==
    IF Len(email_content) >= max_chars
    THEN SubSeq(email_content, 1, max_chars) \o TruncationMarker
    ELSE email_content

\* the truncation of email_content
truncate(email_content) ==
    IF Len(email_content) > max_chars
    THEN SubSeq(email_content, 1, max_chars) \o TruncationMarker
    ELSE email_content

\* headers and payload
build_request(api_key, email_content) ==
    [authorization |-> IF ~api_key.none /\ api_key.s # <<>>
                       THEN [present |-> TRUE, value |-> Bearer \o api_key.s]
                       ELSE [present |-> FALSE, value |-> <<>>],
     roles |-> <<"system", "user">>,
     user_content |-> truncate(email_content),
     max_completion_tokens |-> max_completion_tokens,
     temperature |-> "0.1",
     method |-> "POST",
     timeout |-> timeout]

\* the body of the with block: the lookups of a parsed response
extract_content(j) ==
    IF j.top = "number" THEN Raise("TypeError")
    ELSE IF j.top = "array" \/ j.choices = "absent" THEN None
    ELSE IF j.choices = "null" THEN Raise("TypeError")
    ELSE IF j.n_choices = 0 THEN None
    ELSE IF j.message = "absent" THEN Raise("KeyError")
    ELSE IF j.message = "null" THEN Raise("TypeError")
    ELSE IF j.content = "absent" THEN Raise("KeyError")
    ELSE IF j.content = "null" THEN None
    ELSE Str(j.text)

\* the try statement around urlopen: what the call returns or raises
handle_response(r) ==
    IF r.kind = "urlerror"
    THEN RaiseMsg("Exception", ConnectionErrorPrefix \o r.reason)
    ELSE IF r.kind = "httperror"
    THEN IF r.fp = "undecodable" THEN Raise("UnicodeDecodeError")
         ELSE RaiseMsg("Exception",
                       ApiErrorPrefix \o int_text(r.code) \o <<":", " ">>
                       \o (IF r.fp = "none" THEN <<>> ELSE r.body))
    ELSE IF ~r.parses THEN Raise("JSONDecodeError")
    ELSE extract_content(r.json)

\* call_llm_api(endpoint, model, api_key, system_prompt, email_content)
call_llm_api ==
    \E api_key \in ApiKeyArgs, email_content \in EmailContents, r \in Responses :
        /\ api_pc = "idle"
        /\ api_pc' = "done"
        /\ api_args' = [api_key |-> api_key, email_content |-> email_content]
        /\ api_request' = build_request(api_key, email_content)
        /\ api_sent' = api_sent + 1
        /\ api_response' = r
        /\ api_result' = handle_response(r)
        /\ UNCHANGED <<esc_vars, dlg_vars, cfg_vars, kc_vars>>

NoApiArgs == [api_key |-> [none |-> TRUE, s |-> <<>>], email_content |-> <<>>]
NoRequest == build_request(NoApiArgs.api_key, <<>>)
NoResponse ==
    [kind |-> "none", reason |-> <<>>, code |-> 0, fp |-> "none", body |-> <<>>,
     parses |-> FALSE, json |-> NoShape]

\* the caller has the outcome; the next call starts from scratch
api_return ==
    /\ api_pc = "done"
    /\ api_pc' = "idle"
    /\ api_args' = NoApiArgs
    /\ api_request' = NoRequest
    /\ api_sent' = 0
    /\ api_response' = NoResponse
    /\ api_result' = None
    /\ UNCHANGED <<esc_vars, dlg_vars, cfg_vars, kc_vars>>

----------------------------------------------------------------------------
(* Specifications *)

IdleEscape == esc_text = <<>> /\ esc_result = None

IdleDialog ==
    /\ dlg_fn = "none"
    /\ dlg_args = NoArgs
    /\ dlg_script = <<>>
    /\ dlg_result = None

\* no configuration directory yet
IdleConfig ==
    /\ cfg_dir = FALSE
    /\ cfg_file = NoFile
    /\ cfg_op = "none"
    /\ cfg_result = CfgNone
    /\ cfg_saved = NoSave
    /\ cfg_dropped = FALSE

\* no Keychain call yet
IdleKeychainCalls ==
    /\ kc_op = "none"
    /\ kc_result = None
    /\ kc_steps = <<>>
    /\ kc_before = NoEntry
    /\ kc_saved = NoSavedKey

IdleKeychain == kc_tool = TRUE /\ kc_store = NoEntry /\ IdleKeychainCalls

IdleApi ==
    /\ api_pc = "idle"
    /\ api_args = NoApiArgs
    /\ api_request = NoRequest
    /\ api_sent = 0
    /\ api_response = NoResponse
    /\ api_result = None

Init == IdleEscape /\ IdleDialog /\ IdleConfig /\ IdleKeychain /\ IdleApi

\* the machine as the first Keychain call finds it: with or without the
\* security tool, with or without an entry left by an earlier run
InitKeychain ==
    /\ IdleEscape /\ IdleDialog /\ IdleConfig /\ IdleApi
    /\ kc_tool \in BOOLEAN
    /\ kc_store \in {NoEntry} \cup {Entry(s) : s \in ApiKeys}
    /\ IdleKeychainCalls

NextEscape == Escape
SpecEscape == Init /\ [][NextEscape]_vars

NextDialog == show_alert \/ show_dialog \/ show_threat_dialog \/ dialog_return
SpecDialog == Init /\ [][NextDialog]_vars

NextConfig == load_config \/ save_config \/ file_rewritten \/ file_removed \/ file_denied
SpecConfig == Init /\ [][NextConfig]_vars

NextKeychain == get_api_key_from_keychain \/ save_api_key_to_keychain
SpecKeychain == InitKeychain /\ [][NextKeychain]_vars

NextApi == call_llm_api \/ api_return
SpecApi == Init /\ [][NextApi]_vars

----------------------------------------------------------------------------
(* The script as the AppleScript interpreter reads it *)

\* inside a string literal the interpreter reads backslash-backslash as a
\* backslash and backslash-quote as a quote, scanning left to right
RECURSIVE unescape(_)
unescape(s) ==
    IF s = <<>> THEN <<>>
    ELSE IF Head(s) = BS /\ Len(s) >= 2 THEN <<s[2]>> \o unescape(Tail(Tail(s)))
    ELSE <<Head(s)>> \o unescape(Tail(s))

\* the number of backslashes that end s[1..i]
RECURSIVE backslashes_before(_, _)
backslashes_before(s, i) ==
    IF i >= 1 /\ s[i] = BS THEN 1 + backslashes_before(s, i - 1) ELSE 0

\* the interpreter's reading of one more character c of a script: st holds
\* whether a string literal is open, whether a backslash awaits its character,
\* the literal read so far and the literals closed before it; ok turns FALSE
\* when a backslash escapes anything but \ and "
scan_char(st, c) ==
    IF ~st.ok THEN st
    ELSE IF ~st.in_string
    THEN (IF c = DQ THEN [st EXCEPT !.in_string = TRUE, !.cur = <<>>] ELSE st)
    ELSE IF st.esc
    THEN (IF c \in {BS, DQ}
          THEN [st EXCEPT !.esc = FALSE, !.cur = Append(st.cur, c)]
          ELSE [st EXCEPT !.ok = FALSE])
    ELSE IF c = DQ
    THEN [st EXCEPT !.in_string = FALSE, !.cur = <<>>, !.lits = Append(st.lits, st.cur)]
    ELSE IF c = BS THEN [st EXCEPT !.esc = TRUE]
    ELSE [st EXCEPT !.cur = Append(st.cur, c)]

\* the characters s[lo..hi] read in order from st (halving keeps the nesting shallow)
RECURSIVE scan_range(_, _, _, _)
scan_range(s, lo, hi, st) ==
    IF ~st.ok \/ lo > hi THEN st
    ELSE IF lo = hi THEN scan_char(st, s[lo])
    ELSE LET mid == (lo + hi) \div 2
         IN  scan_range(s, mid + 1, hi, scan_range(s, lo, mid, st))

\* the string literals of a script, decoded, in order; ok is FALSE when a
\* literal is left open or holds a bad escape
literals(script) ==
    LET end == scan_range(script, 1, Len(script),
                          [in_string |-> FALSE, esc |-> FALSE, cur |-> <<>>,
                           lits |-> <<>>, ok |-> TRUE])
    IN  [lits |-> end.lits, ok |-> end.ok /\ ~end.in_string]

SystemEvents == <<"S","y","s","t","e","m"," ","E","v","e","n","t","s">>
LitOK == <<"O","K">>
LitCancel == <<"C","a","n","c","e","l">>
LitKeep == <<"K","e","e","p">>
LitReason == <<"\n","\n","R","e","a","s","o","n",":"," ">>
LitQuestion ==
    <<"\n","\n","M","o","v","e"," ","t","o"," ","J","u","n","k"," ","f","o","l","d","e",
      "r","?">>

\* the literals the script of the last dialog is meant to hold: the fixed ones
\* of the template and, where a parameter is embedded, the parameter's value
intended_literals ==
    CASE dlg_fn = "show_alert" ->
            <<MAILMATE_ICON, SystemEvents, dlg_args.message, dlg_args.title,
              LitOK, LitOK>>
      [] dlg_fn = "show_dialog" ->
            <<MAILMATE_ICON, SystemEvents, dlg_args.message,
              dlg_args.default_answer, LitCancel, LitOK, LitOK, dlg_args.title>>
      [] dlg_fn = "show_threat_dialog" ->
            <<MAILMATE_ICON, SystemEvents,
              dlg_args.threat_type \o LitReason \o dlg_args.reason \o LitQuestion,
              LitKeep, MoveToJunk, MoveToJunk, dlg_args.title>>
      [] OTHER -> <<>>

----------------------------------------------------------------------------
(* Properties of the dialog layer *)

\* C8: whatever a caller passes to show_alert, show_dialog or
\* show_threat_dialog, the script's string literals are the intended ones: no
\* parameter value ends its literal or adds script text.
C8_NoParameterBreaksOut ==
    dlg_fn # "none" =>
        /\ literals(dlg_script).ok
        /\ literals(dlg_script).lits = intended_literals

\* the same statement for the two dialogs that escape every parameter
AlertAndInputDialogsEscape ==
    dlg_fn \in {"show_alert", "show_dialog"} =>
        /\ literals(dlg_script).ok
        /\ literals(dlg_script).lits = intended_literals

\* C9: unescaping the result of escape_for_applescript gives back the
\* argument, and every quote of the result follows an odd number of backslashes.
C9_EscapeRoundTrip ==
    esc_result.kind = "str" =>
        /\ unescape(esc_result.val) = esc_text
        /\ \A i \in 1..Len(esc_result.val) :
              esc_result.val[i] = DQ =>
                  backslashes_before(esc_result.val, i - 1) % 2 = 1

\* an argument holding a backslash right before a quote has been escaped
C9_Witness ==
    /\ esc_result.kind = "str"
    /\ \E i \in 1..(Len(esc_text) - 1) : esc_text[i] = BS /\ esc_text[i + 1] = DQ
    /\ \E i \in 1..(Len(esc_text) - 1) : esc_text[i] = DQ /\ esc_text[i + 1] = BS

----------------------------------------------------------------------------
(* Properties of the config store *)

\* C6, as stated: load_config after save_config returns a mapping equal to the
\* one saved last, whatever JSON-serializable mapping that was.
C6_LoadReturnsLastSaved ==
    (cfg_op = "load" /\ cfg_saved.valid) =>
        /\ cfg_result.kind = "dict"
        /\ items(cfg_result.dict) = items(cfg_saved.config)

\* C6, amended: load_config after save_config returns a mapping equal to the
\* one saved last when all keys of that mapping are strings; nothing of an
\* earlier save is left.
C6_LoadReturnsLastSavedStringKeys ==
    (cfg_op = "load" /\ cfg_saved.valid
       /\ \A k \in keys(cfg_saved.config) : k.t = "str") =>
        /\ cfg_result.kind = "dict"
        /\ items(cfg_result.dict) = items(cfg_saved.config)

\* a load after a save that wrote over a key it does not hold, of a mapping
\* with string keys and a value that needs escaping
C6_Witness ==
    /\ cfg_op = "load"
    /\ cfg_saved.valid
    /\ cfg_dropped
    /\ cfg_saved.config # <<>>
    /\ \A k \in keys(cfg_saved.config) : k.t = "str"
    /\ \E i \in 1..Len(cfg_saved.config) : cfg_saved.config[i].v = StrV(<<DQ, BS>>)
    /\ items(cfg_result.dict) = items(cfg_saved.config)

\* C7: load_config never raises; it returns None when the file is missing,
\* cannot be opened or holds malformed JSON, and a parsed value only when the
\* file exists, can be opened and holds well-formed JSON.
C7_LoadNeverRaises ==
    cfg_op = "load" =>
        /\ cfg_result.kind # "raise"
        /\ (~cfg_file.exists \/ cfg_file.denied \/ cfg_file.text \in MalformedTexts)
              => cfg_result = CfgNone
        /\ cfg_result # CfgNone
              => (cfg_file.exists /\ ~cfg_file.denied
                  /\ cfg_file.text \notin MalformedTexts)
        /\ (cfg_file.exists /\ ~cfg_file.denied /\ cfg_file.text \notin MalformedTexts)
              => cfg_result.kind \in {"dict", "scalar"}

\* load_config has met a file of malformed JSON
C7_Witness ==
    /\ cfg_op = "load"
    /\ cfg_file.exists
    /\ ~cfg_file.denied
    /\ cfg_file.text \in MalformedTexts
    /\ cfg_result = CfgNone

\* ... and a file it could not open
C7_WitnessDenied ==
    /\ cfg_op = "load"
    /\ cfg_file.exists
    /\ cfg_file.denied
    /\ cfg_result = CfgNone

----------------------------------------------------------------------------
(* Properties of the credential store *)

no_outer_whitespace(s) ==
    s = <<>> \/ (s[1] \notin Whitespace /\ s[Len(s)] \notin Whitespace)

\* C4, as stated: a get_api_key_from_keychain that follows a successful
\* save_api_key_to_keychain(s) returns exactly s, for any s.
C4_GetReturnsSavedKey ==
    (kc_op = "get" /\ kc_saved.valid) => kc_result = Str(kc_saved.key)

\* C4, amended: it returns s without its leading and trailing whitespace, so
\* exactly s when s neither starts nor ends with whitespace.
C4_GetReturnsSavedKeyStripped ==
    (kc_op = "get" /\ kc_saved.valid) =>
        /\ kc_result.kind = "str"
        /\ \E i \in 0..Len(kc_saved.key), j \in 0..Len(kc_saved.key) :
              /\ i <= j
              /\ kc_result.val = SubSeq(kc_saved.key, i + 1, j)
              /\ \A h \in (1..i) \cup ((j + 1)..Len(kc_saved.key)) :
                    kc_saved.key[h] \in Whitespace
              /\ no_outer_whitespace(kc_result.val)
        /\ no_outer_whitespace(kc_saved.key) => kc_result = Str(kc_saved.key)

\* a get after a successful save that replaced an existing entry
C4_Witness ==
    /\ kc_op = "get"
    /\ kc_saved.valid
    /\ kc_saved.over
    /\ kc_saved.key # <<>>
    /\ kc_before.secret = kc_saved.key
    /\ kc_result = Str(kc_saved.key)

\* C5: neither credential-store function lets an exception reach its caller.
C5_NoExceptionPropagates ==
    kc_op \in {"get", "save"} => kc_result.kind # "raise"

\* the part of C5 that is about get_api_key_from_keychain
GetNeverRaises ==
    kc_op = "get" => kc_result.kind \in {"none", "str"}

delete_failed == ~kc_steps[1].started \/ kc_steps[1].returncode # 0

\* C10: save_api_key_to_keychain runs delete before add; what it returns is
\* whether add succeeded; when delete removed an entry and add failed it
\* returns False and the entry is gone, so that get_api_key_from_keychain finds
\* nothing; a save that did not succeed leaves the entry as it was only when
\* its delete failed too.
C10_DeleteThenInsert ==
    /\ kc_op = "save" =>
          /\ Len(kc_steps) \in {1, 2}
          /\ kc_steps[1].cmd = "delete-generic-password"
          /\ Len(kc_steps) = 2 => kc_steps[2].cmd = "add-generic-password"
          /\ kc_result.kind = "bool" =>
                /\ Len(kc_steps) = 2
                /\ kc_result.flag = (kc_steps[2].returncode = 0)
          /\ (kc_before.present /\ ~delete_failed
                /\ Len(kc_steps) = 2 /\ kc_steps[2].returncode # 0) =>
                /\ kc_result = Bool(FALSE)
                /\ kc_store = NoEntry
          /\ (kc_result # Bool(TRUE) /\ kc_store = kc_before) => delete_failed
    /\ (kc_op = "get" /\ ~kc_before.present) => kc_result = None

\* a save found an entry, deleted it and failed to add the new one
C10_Witness ==
    /\ kc_op = "save"
    /\ kc_before.present
    /\ ~delete_failed
    /\ kc_steps[2].returncode # 0
    /\ kc_result = Bool(FALSE)
    /\ kc_store = NoEntry

----------------------------------------------------------------------------
(* Properties of the API client *)

well_formed(j) ==
    /\ j.top = "object"
    /\ j.choices = "array"
    /\ j.n_choices > 0
    /\ j.message = "object"
    /\ j.content # "absent"

\* C1: for a 2xx response whose body is JSON, call_llm_api returns the first
\* choice's message content when there is one and None, without raising, for
\* every other shape of the document.
C1_ContentOrNone ==
    (api_pc = "done" /\ api_response.kind = "ok" /\ api_response.parses) =>
        IF well_formed(api_response.json)
        THEN api_result = (IF api_response.json.content = "null" THEN None
                           ELSE Str(api_response.json.text))
        ELSE api_result = None

\* the part of C1 the spec's two examples are about
ContentOrNoneForChoicesLists ==
    (api_pc = "done" /\ api_response.kind = "ok" /\ api_response.parses
       /\ api_response.json.top = "object"
       /\ \/ api_response.json.choices = "absent"
          \/ api_response.json.choices = "array" /\ api_response.json.n_choices = 0
          \/ well_formed(api_response.json)) =>
        IF well_formed(api_response.json)
        THEN api_result = (IF api_response.json.content = "null" THEN None
                           ELSE Str(api_response.json.text))
        ELSE api_result = None

\* C2: one request per call; an HTTP error status raises "API error" with the
\* status code and the body, the empty text when the body cannot be read; a
\* transport error raises "Connection error" with the reason; neither returns.
C2_OneRequestAndTypedFailures ==
    api_pc = "done" =>
        /\ api_sent = 1
        /\ api_response.kind = "httperror" =>
              api_result =
                  RaiseMsg("Exception",
                           ApiErrorPrefix \o int_text(api_response.code) \o <<":", " ">>
                           \o (IF api_response.fp = "text" THEN api_response.body
                               ELSE <<>>))
        /\ api_response.kind = "urlerror" =>
              api_result =
                  RaiseMsg("Exception", ConnectionErrorPrefix \o api_response.reason)

\* C3: an email_content longer than max_chars goes out as its first max_chars
\* characters followed by the truncation marker; one of max_chars characters
\* or fewer goes out as it is.
C3_Truncation ==
    api_pc = "done" =>
        LET given == api_args.email_content
            sent == api_request.user_content
            m == Len(TruncationMarker)
        IN  IF Len(given) > max_chars
            THEN /\ Len(sent) = max_chars + m
                 /\ SubSeq(sent, 1, max_chars) = SubSeq(given, 1, max_chars)
                 /\ SubSeq(sent, Len(sent) - m + 1, Len(sent)) = TruncationMarker
            ELSE sent = given

\* a content of max_chars characters went out unchanged
C3_Witness ==
    /\ api_pc = "done"
    /\ Len(api_args.email_content) = max_chars
    /\ api_request.user_content = api_args.email_content

\* ... and a longer one truncated
C3_WitnessTruncated ==
    /\ api_pc = "done"
    /\ Len(api_args.email_content) = max_chars + 1
    /\ Len(api_request.user_content) = max_chars + Len(TruncationMarker)

====
